---- MODULE Spec2Model ----
(***************************************************************************)
(* DHCPv6 client of OpenThread (src/core/net/dhcp6_client.cpp): the pool   *)
(* of identity associations, the reconciler UpdateAddresses, the trickle   *)
(* driven retry engine and the Reply parser, as one state machine.         *)
(***************************************************************************)
EXTENDS Integers, Sequences, FiniteSets, TLC

\* ------------------------------------------------------------------------
\* Bounds of the model
\* ------------------------------------------------------------------------

\* capacity of mIdentityAssociations (scaled down)
NumIa == 2

\* ------------------------------------------------------------------------
\* Program constants
\* ------------------------------------------------------------------------

kIaStatusInvalid        == "Invalid"
kIaStatusSolicit        == "Solicit"
kIaStatusSoliciting     == "Soliciting"
kIaStatusSolicitReplied == "SolicitReplied"

kOriginThread == "thread"
kOriginDhcp6  == "dhcp6"

kTypeSolicit == "Solicit"
kTypeReply   == "Reply"

kOptionClientIdentifier == "ClientIdentifier"
kOptionServerIdentifier == "ServerIdentifier"
kOptionIaNa             == "IaNa"
kOptionIaAddress        == "IaAddress"
kOptionStatusCode       == "StatusCode"
kOptionRapidCommit      == "RapidCommit"

kStatusSuccess == 0
\* a status code that is not kStatusSuccess
kStatusFailure == kStatusSuccess + 1

kDuidLinkLayerAddressPlusTime == "LLT"
kDuidLinkLayerAddress         == "LL"
kHardwareTypeEthernet         == "Ethernet"
kHardwareTypeEui64            == "Eui64"

\* sizeof() of the wire structures, in bytes
SizeofHeader           == 4
SizeofOption           == 4
SizeofIaNa             == 16
SizeofIaAddress        == 28
SizeofStatusCode       == 6
SizeofClientIdentifier == 16
SizeofServerIdentifier == 16
SizeofRapidCommit      == 4

\* width of uint16_t offsets and lengths
Uint16Mod == 65536

\* width of the uint8_t counter of AppendIaNa
Uint8Mod == 256

\* ------------------------------------------------------------------------
\* Addresses and prefixes: an address is a sequence of bits
\* ------------------------------------------------------------------------

RECURSIVE PrefixMatchFrom(_, _, _)
PrefixMatchFrom(a, b, k) ==
    IF k > Len(a) \/ k > Len(b) THEN 0
    ELSE IF a[k] # b[k] THEN 0
    ELSE 1 + PrefixMatchFrom(a, b, k + 1)

\* Ip6::Address::PrefixMatch: the number of leading bits two addresses share
PrefixMatch(a, b) == PrefixMatchFrom(a, b, 1)

\* the address of a zeroed NetifUnicastAddress
ZeroAddress == <<0, 0, 0>>

\* the on-mesh prefix entries the network data can hold, in iterator order
EntryA     == [mPrefix |-> <<0, 0, 0>>, mLength |-> 2, mRloc16 |-> 1, mDhcp |-> TRUE]
EntryB     == [mPrefix |-> <<0, 1, 0>>, mLength |-> 2, mRloc16 |-> 2, mDhcp |-> TRUE]
EntryC     == [mPrefix |-> <<1, 0, 0>>, mLength |-> 2, mRloc16 |-> 1, mDhcp |-> TRUE]
EntryD     == [mPrefix |-> <<1, 1, 0>>, mLength |-> 2, mRloc16 |-> 2, mDhcp |-> TRUE]
EntryA2    == [mPrefix |-> <<0, 0, 0>>, mLength |-> 2, mRloc16 |-> 2, mDhcp |-> TRUE]
EntryWide  == [mPrefix |-> <<0, 0, 0>>, mLength |-> 1, mRloc16 |-> 1, mDhcp |-> TRUE]
EntrySlaac == [mPrefix |-> <<0, 1, 0>>, mLength |-> 2, mRloc16 |-> 2, mDhcp |-> FALSE]

\* pairwise distinct DHCP prefixes, one more than the pool can serve
DistinctEntries == <<EntryA, EntryB, EntryC, EntryD>>
ExhaustConfig   == SubSeq(DistinctEntries, 1, NumIa + 1)

\* the network data contents UpdateAddresses is run against
Configs ==
    { <<>>, <<EntrySlaac, EntryA>>, <<EntryB>>, <<EntryA, EntryB>>,
      <<EntryA, EntryA2>>, ExhaustConfig }

\* the network data contents of the runs that exercise the Reply parser
ReplyConfigs == { <<>>, <<EntryA, EntryB>> }

\* the network data contents of the runs that exercise address offers
OfferConfigs == { <<>>, <<EntryA, EntryB>>, <<EntryWide, EntryA>> }

TxIds     == {1, 2}

\* ------------------------------------------------------------------------
\* State
\* ------------------------------------------------------------------------

VARIABLES
    mIdentityAssociations,        \* the pool, 1..NumIa
    mIdentityAssociationCurrent,  \* 0 (nullptr) or an index of the pool
    mTransactionId,
    socketBound,                  \* mSocket.IsBound()
    timerRunning,                 \* mTrickleTimer.IsRunning()
    netif,                        \* pool slots whose address is on ThreadNetif
    netdata,                      \* the on-mesh prefixes of the network data
    lastOp,                       \* the entry point that ran last
    rerun,                        \* it was UpdateAddresses, run a second time in
                                  \* a row on the same network data
    lastRx,                       \* the datagram it was given (NoMsg if none)
    addCalls,                     \* AddUnicastAddress calls it made, in order
    removeCalls,                  \* RemoveUnicastAddress calls it made
    solicitCalls,                 \* the Solicit messages it built, in order
    startTimeSet,                 \* it assigned mStartTime
    txGenerated,                  \* it ran mTransactionId.GenerateRandom()
    freshTransaction,             \* mTransactionId was generated after the last
                                  \* assignment of kIaStatusSoliciting
    lastAccepted                  \* Reply accepted under mTransactionId

vars == <<mIdentityAssociations, mIdentityAssociationCurrent, mTransactionId,
          socketBound, timerRunning, netif, netdata, lastOp, rerun, lastRx,
          addCalls, removeCalls, solicitCalls, startTimeSet, txGenerated,
          freshTransaction, lastAccepted>>

IaIndex == 1..NumIa

\* memset(mIdentityAssociations, 0, ...)
ZeroIa ==
    [mStatus |-> kIaStatusInvalid, mAddress |-> ZeroAddress, mPrefixLength |-> 0,
     mPrefixAgentRloc |-> 0, mPreferredLifetime |-> 0, mValidLifetime |-> 0,
     mAddressOrigin |-> kOriginThread, mPreferred |-> FALSE, mValid |-> FALSE]

\* ------------------------------------------------------------------------
\* Reconciler
\* ------------------------------------------------------------------------

MatchNetifAddressWithPrefix(ia, prefix) ==
    /\ prefix.mLength = ia.mPrefixLength
    /\ PrefixMatch(ia.mAddress, prefix.mPrefix) >= prefix.mLength

\* lines 84-96: some DHCP prefix of the network data matches the association
FoundInNetworkData(ia, cfg) ==
    \E k \in 1..Len(cfg) :
        cfg[k].mDhcp /\ MatchNetifAddressWithPrefix(ia, cfg[k])

Min(S) == CHOOSE x \in S : \A y \in S : x <= y

\* lines 76-98: the association holds an address whose prefix is gone
ShouldRemove(ia, cfg) ==
    /\ ia.mStatus # kIaStatusInvalid
    /\ ia.mValidLifetime # 0
    /\ ~FoundInNetworkData(ia, cfg)

RemovedSlots(pool, cfg) == {i \in IaIndex : ShouldRemove(pool[i], cfg)}

\* lines 74-103: the first loop of UpdateAddresses
RemoveInvalidAddresses(pool, cfg) ==
    [i \in IaIndex |->
        IF ShouldRemove(pool[i], cfg)
        THEN [pool[i] EXCEPT !.mStatus = kIaStatusInvalid]
        ELSE pool[i]]

\* ClaimAssociation without the reset of the valid lifetime at line 145
ClaimAssociationKeepLifetime(ia, entry) ==
    [ia EXCEPT !.mAddress      = entry.mPrefix,
               !.mPrefixLength = entry.mLength,
               !.mStatus       = kIaStatusSolicit]

\* lines 142-145: an available association is taken for a new prefix
ClaimAssociation(ia, entry) ==
    [ia EXCEPT !.mAddress       = entry.mPrefix,
               !.mPrefixLength  = entry.mLength,
               !.mStatus        = kIaStatusSolicit,
               !.mValidLifetime = 0]

\* AddAssociation that takes an association to serve a prefix only when its
\* address is the prefix itself
AddAssociationExactAddress(pool, entry) ==
    LET matching  == {i \in IaIndex : /\ pool[i].mStatus # kIaStatusInvalid
                                      /\ pool[i].mPrefixLength = entry.mLength
                                      /\ pool[i].mAddress = entry.mPrefix}
        available == {i \in IaIndex : pool[i].mStatus = kIaStatusInvalid}
    IN  IF ~entry.mDhcp THEN pool
        ELSE IF matching # {}
        THEN [pool EXCEPT ![Min(matching)].mPrefixAgentRloc = entry.mRloc16]
        ELSE IF available # {}
        THEN [pool EXCEPT ![Min(available)] =
                 [ClaimAssociation(@, entry) EXCEPT !.mPrefixAgentRloc = entry.mRloc16]]
        ELSE pool

\* AddAssociation that, with no association available, writes the agent of
\* the prefix into the last association instead of skipping the prefix
AddAssociationOverwrite(pool, entry) ==
    LET matching  == {i \in IaIndex : /\ pool[i].mStatus # kIaStatusInvalid
                                      /\ MatchNetifAddressWithPrefix(pool[i], entry)}
        available == {i \in IaIndex : pool[i].mStatus = kIaStatusInvalid}
    IN  IF ~entry.mDhcp THEN pool
        ELSE IF matching # {}
        THEN [pool EXCEPT ![Min(matching)].mPrefixAgentRloc = entry.mRloc16]
        ELSE IF available # {}
        THEN [pool EXCEPT ![Min(available)] =
                 [ClaimAssociation(@, entry) EXCEPT !.mPrefixAgentRloc = entry.mRloc16]]
        ELSE [pool EXCEPT ![NumIa].mPrefixAgentRloc = entry.mRloc16]

\* lines 110-154: one turn of the second loop of UpdateAddresses
AddAssociation(pool, entry) ==
    LET matching  == {i \in IaIndex : /\ pool[i].mStatus # kIaStatusInvalid
                                      /\ MatchNetifAddressWithPrefix(pool[i], entry)}
        available == {i \in IaIndex : pool[i].mStatus = kIaStatusInvalid}
    IN  IF ~entry.mDhcp THEN pool
        ELSE IF matching # {}
        THEN [pool EXCEPT ![Min(matching)].mPrefixAgentRloc = entry.mRloc16]
        ELSE IF available # {}
        THEN [pool EXCEPT ![Min(available)] =
                 [ClaimAssociation(@, entry) EXCEPT !.mPrefixAgentRloc = entry.mRloc16]]
        ELSE pool

RECURSIVE AddAssociations(_, _, _)
\* lines 108-155: the second loop of UpdateAddresses, from entry k on
AddAssociations(pool, cfg, k) ==
    IF k > Len(cfg) THEN pool
    ELSE AddAssociations(AddAssociation(pool, cfg[k]), cfg, k + 1)

\* line 117: doesAgentExist
DoesAgentExist(cfg) == \E k \in 1..Len(cfg) : cfg[k].mDhcp

\* ------------------------------------------------------------------------
\* Retry engine
\* ------------------------------------------------------------------------

\* ProcessNextIdentityAssociation that takes the last association that waits
ProcessNextIdentityAssociationLast(pool, cur, timer) ==
    LET pending == {i \in IaIndex : pool[i].mStatus = kIaStatusSolicit}
    IN  IF cur # 0 /\ pool[cur].mStatus = kIaStatusSoliciting
        THEN [rval |-> FALSE, cur |-> cur, timer |-> timer, generated |-> FALSE]
        ELSE IF pending # {}
        THEN [rval |-> TRUE, cur |-> CHOOSE i \in pending : \A j \in pending : j <= i,
              timer |-> TRUE, generated |-> TRUE]
        ELSE [rval |-> FALSE, cur |-> cur, timer |-> FALSE, generated |-> FALSE]

\* ProcessNextIdentityAssociation without the check of line 193 that keeps
\* an in-progress solicit from being interrupted
ProcessNextIdentityAssociationInterrupting(pool, cur, timer) ==
    LET pending == {i \in IaIndex : pool[i].mStatus = kIaStatusSolicit}
    IN  IF pending # {}
        THEN [rval |-> TRUE, cur |-> Min(pending), timer |-> TRUE, generated |-> TRUE]
        ELSE [rval |-> FALSE, cur |-> cur, timer |-> FALSE, generated |-> FALSE]

\* lines 188-220; generated tells that mTransactionId.GenerateRandom() ran
ProcessNextIdentityAssociation(pool, cur, timer) ==
    LET pending == {i \in IaIndex : pool[i].mStatus = kIaStatusSolicit}
    IN  IF cur # 0 /\ pool[cur].mStatus = kIaStatusSoliciting
        THEN [rval |-> FALSE, cur |-> cur, timer |-> timer, generated |-> FALSE]
        ELSE IF pending # {}
        THEN [rval |-> TRUE, cur |-> Min(pending), timer |-> TRUE, generated |-> TRUE]
        ELSE [rval |-> FALSE, cur |-> cur, timer |-> FALSE, generated |-> FALSE]

\* Start that opens the socket and leaves the retry engine alone
StartSocketOnly(pool, cur, timer, bound) ==
    [cur |-> cur, timer |-> timer, bound |-> TRUE, generated |-> FALSE]

\* Start without the check of line 171 that the socket is not bound yet
StartAlways(pool, cur, timer, bound) ==
    LET next == ProcessNextIdentityAssociation(pool, cur, timer)
    IN  [cur |-> next.cur, timer |-> next.timer, bound |-> TRUE,
         generated |-> next.generated]

\* lines 167-181
Start(pool, cur, timer, bound) ==
    IF bound
    THEN [cur |-> cur, timer |-> timer, bound |-> bound, generated |-> FALSE]
    ELSE LET next == ProcessNextIdentityAssociation(pool, cur, timer)
         IN  [cur |-> next.cur, timer |-> next.timer, bound |-> TRUE,
              generated |-> next.generated]

\* lines 183-186: only the socket is closed
Stop(cur, timer, bound) ==
    [cur |-> cur, timer |-> timer, bound |-> FALSE, generated |-> FALSE]

\* CountedForIaNa that leaves out only the associations that are Invalid
CountedForIaNaWithReplied(pool, aRloc16) ==
    {i \in IaIndex : /\ pool[i].mStatus # kIaStatusInvalid
                     /\ pool[i].mPrefixAgentRloc = aRloc16}

\* lines 346-359: the associations AppendIaNa counts for an agent
CountedForIaNa(pool, aRloc16) ==
    {i \in IaIndex : /\ pool[i].mStatus # kIaStatusInvalid
                     /\ pool[i].mStatus # kIaStatusSolicitReplied
                     /\ pool[i].mPrefixAgentRloc = aRloc16}

\* lines 339-373: the length AppendIaNa declares in the IA_NA option
AppendIaNa(pool, aRloc16) ==
    (SizeofIaNa
       + SizeofIaAddress * (Cardinality(CountedForIaNa(pool, aRloc16)) % Uint8Mod)
       + Uint16Mod - SizeofOption) % Uint16Mod

RECURSIVE AppendIaAddressFrom(_, _, _)
\* lines 384-394: the loop of AppendIaAddress, from association i on
AppendIaAddressFrom(pool, aRloc16, i) ==
    IF i > NumIa THEN <<>>
    ELSE (IF /\ pool[i].mStatus \in {kIaStatusSolicit, kIaStatusSoliciting}
             /\ pool[i].mPrefixAgentRloc = aRloc16
          THEN <<[addr |-> pool[i].mAddress, preferred |-> 0, valid |-> 0]>>
          ELSE <<>>)
         \o AppendIaAddressFrom(pool, aRloc16, i + 1)

\* lines 375-398: the IA Address options AppendIaAddress appends
AppendIaAddress(pool, aRloc16) == AppendIaAddressFrom(pool, aRloc16, 1)

\* lines 265-303: the Solicit message built for an agent, with the buffers
\* it needs at hand
Solicit(pool, aRloc16) ==
    [rloc        |-> aRloc16,
     iaNaLength  |-> AppendIaNa(pool, aRloc16),
     iaAddresses |-> AppendIaAddress(pool, aRloc16)]

\* HandleTrickleTimer that assigns mStartTime on every Solicit it sends
HandleTrickleTimerRestartsClock(pool, cur, timer, bound) ==
    LET same == [rval |-> TRUE, pool |-> pool, cur |-> cur, timer |-> timer,
                 bound |-> bound, solicits |-> <<>>, generated |-> FALSE,
                 started |-> FALSE]
        soliciting == [pool EXCEPT ![cur].mStatus = kIaStatusSoliciting]
    IN  IF cur = 0 THEN [same EXCEPT !.rval = FALSE]
        ELSE IF pool[cur].mStatus \in {kIaStatusSolicit, kIaStatusSoliciting}
        THEN [same EXCEPT !.pool = soliciting,
                          !.started = TRUE,
                          !.solicits = <<Solicit(soliciting, pool[cur].mPrefixAgentRloc)>>]
        ELSE IF pool[cur].mStatus = kIaStatusSolicitReplied
        THEN LET next == ProcessNextIdentityAssociation(pool, 0, timer)
             IN  IF next.rval
                 THEN [same EXCEPT !.cur = next.cur, !.timer = next.timer,
                                   !.generated = next.generated]
                 ELSE [same EXCEPT !.rval = FALSE, !.cur = next.cur, !.timer = FALSE,
                                   !.bound = FALSE]
        ELSE same

\* HandleTrickleTimer without the Stop() of line 251
HandleTrickleTimerSocketLeftOpen(pool, cur, timer, bound) ==
    LET same == [rval |-> TRUE, pool |-> pool, cur |-> cur, timer |-> timer,
                 bound |-> bound, solicits |-> <<>>, generated |-> FALSE,
                 started |-> FALSE]
        soliciting == [pool EXCEPT ![cur].mStatus = kIaStatusSoliciting]
    IN  IF cur = 0 THEN [same EXCEPT !.rval = FALSE]
        ELSE IF pool[cur].mStatus = kIaStatusSolicit
        THEN [same EXCEPT !.pool = soliciting,
                          !.started = TRUE,
                          !.solicits = <<Solicit(soliciting, pool[cur].mPrefixAgentRloc)>>]
        ELSE IF pool[cur].mStatus = kIaStatusSoliciting
        THEN [same EXCEPT !.solicits = <<Solicit(pool, pool[cur].mPrefixAgentRloc)>>]
        ELSE IF pool[cur].mStatus = kIaStatusSolicitReplied
        THEN LET next == ProcessNextIdentityAssociation(pool, 0, timer)
             IN  IF next.rval
                 THEN [same EXCEPT !.cur = next.cur, !.timer = next.timer,
                                   !.generated = next.generated]
                 ELSE [same EXCEPT !.rval = FALSE, !.cur = next.cur, !.timer = FALSE]
        ELSE same

\* lines 227-263; started tells that mStartTime was assigned
HandleTrickleTimer(pool, cur, timer, bound) ==
    LET same == [rval |-> TRUE, pool |-> pool, cur |-> cur, timer |-> timer,
                 bound |-> bound, solicits |-> <<>>, generated |-> FALSE,
                 started |-> FALSE]
        soliciting == [pool EXCEPT ![cur].mStatus = kIaStatusSoliciting]
    IN  IF cur = 0 THEN [same EXCEPT !.rval = FALSE]
        ELSE IF pool[cur].mStatus = kIaStatusSolicit
        THEN [same EXCEPT !.pool = soliciting,
                          !.started = TRUE,
                          !.solicits = <<Solicit(soliciting, pool[cur].mPrefixAgentRloc)>>]
        ELSE IF pool[cur].mStatus = kIaStatusSoliciting
        THEN [same EXCEPT !.solicits = <<Solicit(pool, pool[cur].mPrefixAgentRloc)>>]
        ELSE IF pool[cur].mStatus = kIaStatusSolicitReplied
        THEN LET next == ProcessNextIdentityAssociation(pool, 0, timer)
             IN  IF next.rval
                 THEN [same EXCEPT !.cur = next.cur, !.timer = next.timer,
                                   !.generated = next.generated]
                 ELSE [same EXCEPT !.rval = FALSE, !.cur = next.cur, !.timer = FALSE,
                                   !.bound = FALSE]
        ELSE same

\* ------------------------------------------------------------------------
\* Datagrams: a header and a flat run of option records.  Each record has
\* the declared code and length of its option header, the number of bytes
\* it occupies in the buffer, and the fields of its payload.  The options
\* nested in an IA_NA follow its fixed part in the run.
\* ------------------------------------------------------------------------

Unit(code, len, size) ==
    [code |-> code, len |-> len, size |-> size, offset |-> 0,
     status |-> kStatusSuccess,
     duidType |-> kDuidLinkLayerAddress, hwType |-> kHardwareTypeEui64,
     lladdr |-> "self", addr |-> ZeroAddress, preferred |-> 0, valid |-> 0]

RECURSIVE PlaceUnits(_, _, _)
\* the records laid out one after the other from an offset on
PlaceUnits(units, k, offset) ==
    IF k > Len(units) THEN <<>>
    ELSE <<[units[k] EXCEPT !.offset = offset]>>
             \o PlaceUnits(units, k + 1, offset + units[k].size)

RECURSIVE TotalSize(_, _)
TotalSize(units, k) ==
    IF k > Len(units) THEN 0 ELSE units[k].size + TotalSize(units, k + 1)

\* a datagram; offsets count from the DHCPv6 header, length is
\* aMessage.GetLength() - aMessage.GetOffset() before the header is read
Datagram(type, txid, units) ==
    [type |-> type, txid |-> txid, units |-> PlaceUnits(units, 1, SizeofHeader),
     length |-> SizeofHeader + TotalSize(units, 1)]

MsgLength(m) == m.length

\* the record that starts at an offset, 0 if none does
UnitAt(m, offset) ==
    IF \E k \in 1..Len(m.units) : m.units[k].offset = offset
    THEN CHOOSE k \in 1..Len(m.units) : m.units[k].offset = offset
    ELSE 0

\* aMessage.Read(aOffset, aSize, &option) == aSize, for a structure that
\* starts where a record starts
ReadOk(m, offset, size) ==
    /\ offset + size <= MsgLength(m)
    /\ UnitAt(m, offset) # 0
    /\ m.units[UnitAt(m, offset)].size >= size

RECURSIVE FindOptionFrom(_, _, _, _)
\* lines 469-481: the loop of FindOption, up to and including offset end
FindOptionFrom(m, aOffset, end, aCode) ==
    IF aOffset > end THEN 0
    ELSE IF ~ReadOk(m, aOffset, SizeofOption) THEN 0
    ELSE IF m.units[UnitAt(m, aOffset)].code = aCode THEN aOffset
    ELSE FindOptionFrom(m,
             (aOffset + SizeofOption + m.units[UnitAt(m, aOffset)].len) % Uint16Mod,
             end, aCode)

\* lines 464-485; 0 stands for "not found"
FindOption(m, aOffset, aLength, aCode) ==
    FindOptionFrom(m, aOffset, (aOffset + aLength) % Uint16Mod, aCode)

\* lines 557-569: TRUE when the option is a success status
ProcessStatusCode(m, aOffset) ==
    /\ ReadOk(m, aOffset, SizeofStatusCode)
    /\ m.units[UnitAt(m, aOffset)].len >= SizeofStatusCode - SizeofOption
    /\ m.units[UnitAt(m, aOffset)].status = kStatusSuccess

\* lines 487-501: TRUE when the server DUID is of an accepted form
ProcessServerIdentifier(m, aOffset) ==
    ReadOk(m, aOffset, SizeofServerIdentifier) =>
        LET option == m.units[UnitAt(m, aOffset)]
        IN  \/ /\ option.duidType = kDuidLinkLayerAddressPlusTime
               /\ option.hwType = kHardwareTypeEthernet
            \/ /\ option.len = SizeofServerIdentifier - SizeofOption
               /\ option.duidType = kDuidLinkLayerAddress
               /\ option.hwType = kHardwareTypeEui64

\* lines 503-519: TRUE when the client DUID is this node's
ProcessClientIdentifier(m, aOffset) ==
    /\ ReadOk(m, aOffset, SizeofClientIdentifier)
    /\ LET option == m.units[UnitAt(m, aOffset)]
       IN  /\ option.len = SizeofClientIdentifier - SizeofOption
           /\ option.duidType = kDuidLinkLayerAddress
           /\ option.hwType = kHardwareTypeEui64
           /\ option.lladdr = "self"

\* lines 582-588: the association an offered address is applied to
AcceptsAddress(ia, address) ==
    /\ ia.mStatus # kIaStatusInvalid
    /\ ia.mValidLifetime = 0
    /\ PrefixMatch(ia.mAddress, address) >= ia.mPrefixLength

\* ApplyIaAddress that derives mValid from the preferred lifetime
ApplyIaAddressValidFromPreferred(ia, option) ==
    [ia EXCEPT !.mAddress           = option.addr,
               !.mPreferredLifetime = option.preferred,
               !.mValidLifetime     = option.valid,
               !.mAddressOrigin     = kOriginDhcp6,
               !.mPreferred         = (option.preferred # 0),
               !.mValid             = (option.preferred # 0),
               !.mStatus            = kIaStatusSolicitReplied]

\* lines 590-596
ApplyIaAddress(ia, option) ==
    [ia EXCEPT !.mAddress           = option.addr,
               !.mPreferredLifetime = option.preferred,
               !.mValidLifetime     = option.valid,
               !.mAddressOrigin     = kOriginDhcp6,
               !.mPreferred         = (option.preferred # 0),
               !.mValid             = (option.valid # 0),
               !.mStatus            = kIaStatusSolicitReplied]

\* lines 571-604
ProcessIaAddress(pool, m, aOffset) ==
    IF ~(/\ ReadOk(m, aOffset, SizeofIaAddress)
         /\ m.units[UnitAt(m, aOffset)].len = SizeofIaAddress - SizeofOption)
    THEN [error |-> TRUE, pool |-> pool, adds |-> <<>>]
    ELSE LET option  == m.units[UnitAt(m, aOffset)]
             matches == {i \in IaIndex : AcceptsAddress(pool[i], option.addr)}
         IN  IF matches = {}
             THEN [error |-> FALSE, pool |-> pool, adds |-> <<>>]
             ELSE [error |-> FALSE,
                   pool  |-> [pool EXCEPT ![Min(matches)] = ApplyIaAddress(@, option)],
                   adds  |-> <<Min(matches)>>]

RECURSIVE ProcessIaNaLoop(_, _, _, _, _)
\* lines 540-551: the scan of the nested options for IA Address options
ProcessIaNaLoop(pool, adds, m, aOffset, length) ==
    IF length = 0 THEN [error |-> FALSE, pool |-> pool, adds |-> adds]
    ELSE LET optionOffset == FindOption(m, aOffset, length, kOptionIaAddress)
         IN  IF optionOffset = 0 THEN [error |-> FALSE, pool |-> pool, adds |-> adds]
             ELSE LET r == ProcessIaAddress(pool, m, optionOffset)
                  IN  IF r.error THEN [error |-> TRUE, pool |-> pool, adds |-> adds]
                      ELSE ProcessIaNaLoop(r.pool, adds \o r.adds, m,
                               optionOffset + SizeofIaAddress,
                               (length - ((optionOffset - aOffset) + SizeofIaAddress))
                                   % Uint16Mod)

\* lines 521-555
ProcessIaNa(pool, m, aOffset) ==
    IF ~ReadOk(m, aOffset, SizeofIaNa)
    THEN [error |-> TRUE, pool |-> pool, adds |-> <<>>]
    ELSE LET nested == aOffset + SizeofIaNa
             length == (m.units[UnitAt(m, aOffset)].len - (SizeofIaNa - SizeofOption))
                           % Uint16Mod
             status == FindOption(m, nested, length, kOptionStatusCode)
         IN  IF ~(length <= MsgLength(m) - nested)
             THEN [error |-> TRUE, pool |-> pool, adds |-> <<>>]
             ELSE IF status > 0 /\ ~ProcessStatusCode(m, status)
             THEN [error |-> TRUE, pool |-> pool, adds |-> <<>>]
             ELSE ProcessIaNaLoop(pool, <<>>, m, nested, length)

\* lines 432-462: done tells whether HandleTrickleTimer() at line 458 is reached
ProcessReply(pool, m) ==
    LET offset == SizeofHeader
        length == MsgLength(m) - SizeofHeader
        status == FindOption(m, offset, length, kOptionStatusCode)
        server == FindOption(m, offset, length, kOptionServerIdentifier)
        client == FindOption(m, offset, length, kOptionClientIdentifier)
        rapid  == FindOption(m, offset, length, kOptionRapidCommit)
        iana   == FindOption(m, offset, length, kOptionIaNa)
        stop   == [done |-> FALSE, pool |-> pool, adds |-> <<>>]
    IN  IF status > 0 /\ ~ProcessStatusCode(m, status) THEN stop
        ELSE IF ~(server > 0) THEN stop
        ELSE IF ~ProcessServerIdentifier(m, server) THEN stop
        ELSE IF ~(client > 0) THEN stop
        ELSE IF ~ProcessClientIdentifier(m, client) THEN stop
        ELSE IF ~(rapid > 0) THEN stop
        ELSE IF ~(iana > 0) THEN stop
        ELSE LET r == ProcessIaNa(pool, m, iana)
             IN  [done |-> ~r.error, pool |-> r.pool, adds |-> r.adds]

\* ------------------------------------------------------------------------
\* The datagrams the socket can deliver
\* ------------------------------------------------------------------------

NoMsg == [type |-> "None", txid |-> 0, units |-> <<>>, length |-> 0]

ServerIdUnit  == Unit(kOptionServerIdentifier, SizeofServerIdentifier - SizeofOption,
                      SizeofServerIdentifier)
ServerLltUnit == [ServerIdUnit EXCEPT !.duidType = kDuidLinkLayerAddressPlusTime,
                                      !.hwType = kHardwareTypeEthernet]
ServerBadUnit == [ServerIdUnit EXCEPT !.hwType = kHardwareTypeEthernet]
ClientIdUnit(ll) ==
    [Unit(kOptionClientIdentifier, SizeofClientIdentifier - SizeofOption,
          SizeofClientIdentifier) EXCEPT !.lladdr = ll]
RapidCommitUnit == Unit(kOptionRapidCommit, 0, SizeofRapidCommit)
StatusUnit(code) ==
    [Unit(kOptionStatusCode, SizeofStatusCode - SizeofOption, SizeofStatusCode)
        EXCEPT !.status = code]
\* an IA_NA whose nested options take the given number of bytes
IaNaUnit(nestedBytes) ==
    Unit(kOptionIaNa, SizeofIaNa - SizeofOption + nestedBytes, SizeofIaNa)
IaAddressUnit(a, p, v) ==
    [Unit(kOptionIaAddress, SizeofIaAddress - SizeofOption, SizeofIaAddress)
        EXCEPT !.addr = a, !.preferred = p, !.valid = v]

OfferAddrs    == { <<0, 0, 1>>, <<0, 1, 1>>, <<1, 0, 1>> }
LifetimePairs == { <<0, 0>>, <<0, 60>> }
OfferA        == <<0, 0, 1>>
OfferB        == <<0, 1, 1>>

\* server and client identifiers, rapid commit, one IA_NA with one address
PlainUnits(a, p, v) ==
    <<ServerIdUnit, ClientIdUnit("self"), RapidCommitUnit,
      IaNaUnit(SizeofIaAddress), IaAddressUnit(a, p, v)>>

\* the same with success status codes at top level and inside the IA_NA
StatusUnits(top, inner, a, p, v) ==
    <<StatusUnit(top), ServerLltUnit, ClientIdUnit("self"), RapidCommitUnit,
      IaNaUnit(SizeofStatusCode + SizeofIaAddress), StatusUnit(inner),
      IaAddressUnit(a, p, v)>>

\* a valid IA Address followed by one whose length field is wrong
BadLengthUnits ==
    <<ServerIdUnit, ClientIdUnit("self"), RapidCommitUnit,
      IaNaUnit(2 * SizeofIaAddress), IaAddressUnit(OfferA, 30, 60),
      [IaAddressUnit(OfferB, 30, 60) EXCEPT !.len = SizeofIaAddress]>>

\* a valid IA Address followed by one cut short by the end of the datagram
TruncatedUnits ==
    <<ServerIdUnit, ClientIdUnit("self"), RapidCommitUnit,
      IaNaUnit(SizeofIaAddress + 20), IaAddressUnit(OfferA, 30, 60),
      [IaAddressUnit(OfferB, 30, 60) EXCEPT !.size = 20]>>

\* replies that offer an address with a lifetime
OfferRuns == { PlainUnits(a, 30, 60) : a \in OfferAddrs }

\* replies that offer an address with each pair of lifetimes
LifetimeRuns ==
    { PlainUnits(OfferA, lp[1], lp[2]) : lp \in LifetimePairs }
    \cup { PlainUnits(OfferB, 30, 60) }

\* replies the parser has a reason to turn down
RejectRuns ==
    { StatusUnits(kStatusFailure, kStatusSuccess, OfferA, 30, 60),
      StatusUnits(kStatusSuccess, kStatusFailure, OfferA, 30, 60),
      \* another node's client identifier
      <<ServerIdUnit, ClientIdUnit("other"), RapidCommitUnit,
        IaNaUnit(SizeofIaAddress), IaAddressUnit(OfferA, 30, 60)>>,
      \* a server identifier of no accepted form
      <<ServerBadUnit, ClientIdUnit("self"), RapidCommitUnit,
        IaNaUnit(SizeofIaAddress), IaAddressUnit(OfferA, 30, 60)>>,
      \* no server identifier
      <<ClientIdUnit("self"), RapidCommitUnit,
        IaNaUnit(SizeofIaAddress), IaAddressUnit(OfferA, 30, 60)>>,
      \* no rapid commit
      <<ServerIdUnit, ClientIdUnit("self"),
        IaNaUnit(SizeofIaAddress), IaAddressUnit(OfferA, 30, 60)>>,
      \* no IA_NA
      <<ServerIdUnit, ClientIdUnit("self"), RapidCommitUnit>> }

\* replies whose IA_NA holds a valid IA Address and then a malformed one
MalformedRuns == { BadLengthUnits, TruncatedUnits }

\* an IA_NA whose nested options are one status code, followed at top level
\* by an IA Address
OverrunUnits ==
    <<ServerIdUnit, ClientIdUnit("self"), RapidCommitUnit,
      IaNaUnit(SizeofStatusCode), StatusUnit(kStatusSuccess),
      IaAddressUnit(OfferA, 30, 60)>>

\* the datagrams of the runs that exercise the Reply parser
ReplyDatagrams ==
    { Datagram(kTypeReply, t, u) :
        t \in TxIds,
        u \in OfferRuns \cup RejectRuns \cup MalformedRuns
              \cup {StatusUnits(kStatusSuccess, kStatusSuccess, OfferA, 30, 60),
                    OverrunUnits} }
    \cup
    { Datagram(kTypeSolicit, t, PlainUnits(OfferA, 30, 60)) : t \in TxIds }

\* the datagrams of the runs that exercise address offers
OfferDatagrams == { Datagram(kTypeReply, t, u) : t \in TxIds, u \in LifetimeRuns }

\* the datagrams of the runs that exercise the pool
Datagrams ==
    { Datagram(kTypeReply, t, u) :
        t \in TxIds,
        u \in { PlainUnits(OfferA, 30, 60), PlainUnits(OfferA, 0, 0),
                PlainUnits(OfferB, 30, 60), TruncatedUnits } }

\* every offset the parser can step to is the start of a record or lies at
\* or beyond the end of the datagram, and only the last record is cut short
NaturalSize(code) ==
    CASE code = kOptionServerIdentifier -> SizeofServerIdentifier
      [] code = kOptionClientIdentifier -> SizeofClientIdentifier
      [] code = kOptionIaNa             -> SizeofIaNa
      [] code = kOptionIaAddress        -> SizeofIaAddress
      [] code = kOptionStatusCode       -> SizeofStatusCode
      [] OTHER                          -> SizeofOption

OnRecordStart(m, offset) == offset >= MsgLength(m) \/ UnitAt(m, offset) # 0

LaidOut(m) ==
    \A k \in 1..Len(m.units) :
        /\ OnRecordStart(m, m.units[k].offset + SizeofOption + m.units[k].len)
        /\ k < Len(m.units) => m.units[k].size = NaturalSize(m.units[k].code)
        /\ m.units[k].size >= SizeofOption

\* ------------------------------------------------------------------------
\* The state machine
\* ------------------------------------------------------------------------

\* lines 50-58; mTransactionId is left as the storage holds it
Init ==
    /\ mIdentityAssociations = [i \in IaIndex |-> ZeroIa]
    /\ mIdentityAssociationCurrent = 0
    /\ mTransactionId \in TxIds
    /\ socketBound = FALSE
    /\ timerRunning = FALSE
    /\ netif = {}
    /\ netdata = <<>>
    /\ lastOp = "init"
    /\ rerun = FALSE
    /\ lastRx = NoMsg
    /\ addCalls = <<>>
    /\ removeCalls = {}
    /\ solicitCalls = <<>>
    /\ startTimeSet = FALSE
    /\ txGenerated = FALSE
    /\ freshTransaction = TRUE
    /\ lastAccepted = NoMsg

\* line 206: GenerateRandom() may leave any identifier in mTransactionId
GenerateRandom(generated) ==
    IF generated THEN mTransactionId' \in TxIds ELSE mTransactionId' = mTransactionId

\* the record of lines 206 and 236-237 an entry point leaves behind
RecordTransaction(generated, started) ==
    /\ startTimeSet' = started
    /\ txGenerated' = generated
    /\ freshTransaction' = IF started THEN FALSE ELSE (generated \/ freshTransaction)

\* lines 66-165: what UpdateAddresses computes on the network data cfg
UpdateAddressesResult(cfg) ==
    LET pool == AddAssociations(RemoveInvalidAddresses(mIdentityAssociations, cfg), cfg, 1)
        r    == IF DoesAgentExist(cfg)
                THEN Start(pool, mIdentityAssociationCurrent, timerRunning, socketBound)
                ELSE Stop(mIdentityAssociationCurrent, timerRunning, socketBound)
    IN  [pool |-> pool, removed |-> RemovedSlots(mIdentityAssociations, cfg),
         cur |-> r.cur, timer |-> r.timer, bound |-> r.bound, generated |-> r.generated]

\* lines 66-165, run on the network data cfg
UpdateAddresses(cfg) ==
    \E r \in {UpdateAddressesResult(cfg)} :
        /\ netdata' = cfg
        /\ mIdentityAssociations' = r.pool
        /\ mIdentityAssociationCurrent' = r.cur
        /\ GenerateRandom(r.generated)
        /\ timerRunning' = r.timer
        /\ socketBound' = r.bound
        /\ netif' = netif \ r.removed
        /\ lastOp' = "update"
        /\ rerun' = (lastOp = "update" /\ cfg = netdata)
        /\ lastRx' = NoMsg
        /\ addCalls' = <<>>
        /\ removeCalls' = r.removed
        /\ solicitCalls' = <<>>
        /\ RecordTransaction(r.generated, FALSE)
        /\ lastAccepted' = IF r.generated THEN NoMsg ELSE lastAccepted

\* lines 222-225: the trickle timer fires; it stops when the handler returns false
TrickleTimerFired ==
    /\ timerRunning
    /\ \E r \in {HandleTrickleTimer(mIdentityAssociations, mIdentityAssociationCurrent,
                                    timerRunning, socketBound)} :
           /\ mIdentityAssociations' = r.pool
           /\ mIdentityAssociationCurrent' = r.cur
           /\ GenerateRandom(r.generated)
           /\ timerRunning' = (r.rval /\ r.timer)
           /\ socketBound' = r.bound
           /\ solicitCalls' = r.solicits
           /\ RecordTransaction(r.generated, r.started)
           /\ lastAccepted' = IF r.generated THEN NoMsg ELSE lastAccepted
    /\ lastOp' = "timer"
    /\ rerun' = FALSE
    /\ lastRx' = NoMsg
    /\ addCalls' = <<>>
    /\ removeCalls' = {}
    /\ UNCHANGED <<netif, netdata>>

\* HandleUdpReceive without the comparison of transaction ids at line 423
HandleUdpReceiveReplyAnyTransaction(m) ==
    IF m.type = kTypeReply
    THEN ProcessReply(mIdentityAssociations, m)
    ELSE [done |-> FALSE, pool |-> mIdentityAssociations, adds |-> <<>>]

\* lines 414-430: the header check, then ProcessReply
HandleUdpReceiveReply(m) ==
    IF m.type = kTypeReply /\ m.txid = mTransactionId
    THEN ProcessReply(mIdentityAssociations, m)
    ELSE [done |-> FALSE, pool |-> mIdentityAssociations, adds |-> <<>>]

\* line 458: HandleTrickleTimer() once the Reply is processed; its result is dropped
HandleUdpReceiveTimer(reply) ==
    IF reply.done
    THEN HandleTrickleTimer(reply.pool, mIdentityAssociationCurrent, timerRunning,
                            socketBound)
    ELSE [rval |-> FALSE, pool |-> reply.pool, cur |-> mIdentityAssociationCurrent,
          timer |-> timerRunning, bound |-> socketBound, solicits |-> <<>>,
          generated |-> FALSE, started |-> FALSE]

\* lines 408-430: the socket delivers datagram m
HandleUdpReceive(m) ==
    /\ socketBound
    /\ \E reply \in {HandleUdpReceiveReply(m)} :
         \E r \in {HandleUdpReceiveTimer(reply)} :
           /\ mIdentityAssociations' = r.pool
           /\ mIdentityAssociationCurrent' = r.cur
           /\ GenerateRandom(r.generated)
           /\ timerRunning' = r.timer
           /\ socketBound' = r.bound
           /\ solicitCalls' = r.solicits
           /\ RecordTransaction(r.generated, r.started)
           /\ addCalls' = reply.adds
           /\ netif' = netif \cup {reply.adds[k] : k \in 1..Len(reply.adds)}
           /\ lastAccepted' = IF r.generated THEN NoMsg
                              ELSE IF reply.done /\ reply.adds # <<>> THEN m
                              ELSE lastAccepted
    /\ lastOp' = "recv"
    /\ rerun' = FALSE
    /\ lastRx' = m
    /\ removeCalls' = {}
    /\ UNCHANGED netdata

\* the entry points, the reconciler run on one of cfgs and the socket
\* delivering one of dgrams
NextOver(cfgs, dgrams) ==
    \/ \E cfg \in cfgs : UpdateAddresses(cfg)
    \/ TrickleTimerFired
    \/ \E m \in dgrams : HandleUdpReceive(m)

Next == NextOver(Configs, Datagrams)

Spec == Init /\ [][Next]_vars

NextReply == NextOver(ReplyConfigs, ReplyDatagrams)

SpecReply == Init /\ [][NextReply]_vars

NextOffer == NextOver(OfferConfigs, OfferDatagrams)

SpecOffer == Init /\ [][NextOffer]_vars

\* ------------------------------------------------------------------------
\* Well-formedness of the model
\* ------------------------------------------------------------------------

TypeOK ==
    /\ mIdentityAssociationCurrent \in 0..NumIa
    /\ mTransactionId \in TxIds
    /\ socketBound \in BOOLEAN
    /\ timerRunning \in BOOLEAN
    /\ netif \subseteq IaIndex
    /\ netdata \in Configs \cup OfferConfigs
    /\ lastRx \in Datagrams \cup ReplyDatagrams \cup OfferDatagrams \cup {NoMsg}
    /\ lastAccepted \in Datagrams \cup ReplyDatagrams \cup OfferDatagrams \cup {NoMsg}

\* the catalogue of datagrams keeps the parser on record boundaries
DatagramsLaidOut == \A m \in Datagrams \cup ReplyDatagrams \cup OfferDatagrams : LaidOut(m)

\* ------------------------------------------------------------------------
\* Properties of the pool
\* ------------------------------------------------------------------------

Soliciting == {i \in IaIndex : mIdentityAssociations[i].mStatus = kIaStatusSoliciting}

\* C1: in every state reachable by reconciles, timer firings and inbound
\* datagrams, at most one binding of the pool has status Soliciting
C1_AtMostOneSoliciting == Cardinality(Soliciting) <= 1

\* one binding is being solicited while another waits for its turn
C1_SolicitingBesidePending ==
    /\ Soliciting # {}
    /\ \E j \in IaIndex : mIdentityAssociations[j].mStatus = kIaStatusSolicit

\* C2, as stated: every binding whose status is Invalid has validLifetime 0
C2_InvalidHasZeroLifetime ==
    \A i \in IaIndex :
        mIdentityAssociations[i].mStatus = kIaStatusInvalid
            => mIdentityAssociations[i].mValidLifetime = 0

\* C2, amended: a binding waiting to be solicited or being solicited has
\* validLifetime 0; an Invalid binding has validLifetime 0 unless a Reply gave
\* it a nonzero valid lifetime before the reconciler invalidated it
C2_LifetimeZeroUntilReplied ==
    \A i \in IaIndex :
        LET ia == mIdentityAssociations[i]
        IN  /\ ia.mStatus \in {kIaStatusSolicit, kIaStatusSoliciting}
                => ia.mValidLifetime = 0
            /\ (ia.mStatus = kIaStatusInvalid /\ ia.mValidLifetime # 0)
                => (ia.mAddressOrigin = kOriginDhcp6 /\ ia.mValid)

\* the reconciler has just invalidated a binding that holds a lifetime, and a
\* binding claimed anew waits beside it
C2_StaleLifetimeAfterReconcile ==
    /\ lastOp = "update"
    /\ \E i \in removeCalls :
          /\ mIdentityAssociations[i].mStatus = kIaStatusInvalid
          /\ mIdentityAssociations[i].mValidLifetime # 0
    /\ \E j \in IaIndex : mIdentityAssociations[j].mStatus = kIaStatusSolicit

\* C3: right after a reconcile every binding that is not Invalid, whatever
\* its status and validLifetime, matches a DHCP prefix of the configuration
C3_NonInvalidMatchesPrefix ==
    lastOp = "update" =>
        \A i \in IaIndex :
            mIdentityAssociations[i].mStatus # kIaStatusInvalid
                => FoundInNetworkData(mIdentityAssociations[i], netdata)

\* C4: after a reconcile on a configuration without a DHCP prefix the socket
\* is closed and the trickle timer is stopped
C4_DeactivatedWithoutAgent ==
    (lastOp = "update" /\ ~DoesAgentExist(netdata))
        => (~socketBound /\ ~timerRunning)

\* ------------------------------------------------------------------------
\* Properties of the handling of inbound datagrams
\* ------------------------------------------------------------------------

\* the option records of a datagram with a given code
UnitsOf(m, code) == {k \in 1..Len(m.units) : m.units[k].code = code}

\* an IA Address record with a wrong length field or cut short
MalformedIaAddress(m) ==
    \E k \in UnitsOf(m, kOptionIaAddress) :
        \/ m.units[k].len # SizeofIaAddress - SizeofOption
        \/ m.units[k].size < SizeofIaAddress

\* C5: a Reply that fails to parse, such as one whose IA_NA holds a valid IA
\* Address and then a malformed one, is not applied in part: the handler
\* leaves every binding as it was and makes no AddUnicastAddress call
C5_NoPartialApplication ==
    [][(/\ lastOp' = "recv"
        /\ lastRx'.type = kTypeReply
        /\ MalformedIaAddress(lastRx'))
           => (/\ mIdentityAssociations' = mIdentityAssociations
               /\ addCalls' = <<>>)]_vars

\* the rejection classes of a datagram, told from its content
TransactionMismatch(m) == m.type = kTypeReply /\ m.txid # mTransactionId

NotAReply(m) == m.type # kTypeReply

ForeignClientIdentifier(m) ==
    \E k \in UnitsOf(m, kOptionClientIdentifier) : m.units[k].lladdr # "self"

FailureStatus(m) ==
    \E k \in UnitsOf(m, kOptionStatusCode) : m.units[k].status # kStatusSuccess

MissingOption(m) ==
    \/ UnitsOf(m, kOptionServerIdentifier) = {}
    \/ UnitsOf(m, kOptionRapidCommit) = {}
    \/ UnitsOf(m, kOptionIaNa) = {}

\* the datagram carries one IA Address, a well-formed one
SingleIaAddress(m) ==
    /\ Cardinality(UnitsOf(m, kOptionIaAddress)) = 1
    /\ ~MalformedIaAddress(m)

OfferedAddress(m) ==
    m.units[CHOOSE k \in UnitsOf(m, kOptionIaAddress) : TRUE].addr

\* the address lies in the prefix a binding was claimed for
InPrefixOf(ia, address) == PrefixMatch(ia.mAddress, address) >= ia.mPrefixLength

\* the only IA Address is outside the prefix of the binding being solicited
OutsideSolicitedPrefix(m) ==
    /\ SingleIaAddress(m)
    /\ \A i \in Soliciting : ~InPrefixOf(mIdentityAssociations[i], OfferedAddress(m))

\* the only IA Address is outside the prefix of every binding in use that
\* has validLifetime 0
OutsideEveryOpenPrefix(m) ==
    /\ SingleIaAddress(m)
    /\ \A i \in IaIndex :
          (/\ mIdentityAssociations[i].mStatus # kIaStatusInvalid
           /\ mIdentityAssociations[i].mValidLifetime = 0)
              => ~InPrefixOf(mIdentityAssociations[i], OfferedAddress(m))

RejectedByHeaderOrOptions(m) ==
    \/ TransactionMismatch(m)
    \/ NotAReply(m)
    \/ ForeignClientIdentifier(m)
    \/ FailureStatus(m)
    \/ MissingOption(m)

\* the datagram changes nothing and the solicited binding stays Soliciting
LeftAsItWas ==
    /\ UNCHANGED <<mIdentityAssociations, mIdentityAssociationCurrent, mTransactionId>>
    /\ \A i \in Soliciting : mIdentityAssociations'[i].mStatus = kIaStatusSoliciting
    /\ addCalls' = <<>>

\* C6, as stated: with one binding Soliciting, a datagram of classes (i) to
\* (v), or (vi) one whose only IA Address is outside the prefix of the
\* Soliciting binding, leaves pool, current binding and transaction id as
\* they were
C6_RejectedLeavesState ==
    [][(/\ lastOp' = "recv"
        /\ Soliciting # {}
        /\ \/ RejectedByHeaderOrOptions(lastRx')
           \/ OutsideSolicitedPrefix(lastRx'))
           => LeftAsItWas]_vars

\* C6, amended: class (vi) is a Reply whose only IA Address is outside the
\* prefix of every binding in use that has validLifetime 0, the Soliciting
\* one and the ones waiting
C6_RejectedLeavesStateOpenPrefixes ==
    [][(/\ lastOp' = "recv"
        /\ Soliciting # {}
        /\ \/ RejectedByHeaderOrOptions(lastRx')
           \/ OutsideEveryOpenPrefix(lastRx'))
           => LeftAsItWas]_vars

\* a Reply under the outstanding transaction, with every option in order
\* and an address no binding has a use for, came in while a binding was
\* Soliciting; the binding was solicited again
C6_UnusableOfferReceived ==
    /\ lastOp = "recv"
    /\ Soliciting # {}
    /\ lastRx.type = kTypeReply
    /\ lastRx.txid = mTransactionId
    /\ ~RejectedByHeaderOrOptions(lastRx)
    /\ OutsideEveryOpenPrefix(lastRx)
    /\ addCalls = <<>>
    /\ solicitCalls # <<>>

\* the accepted form of a server identifier
ValidServerIdentifier(m) ==
    \A k \in UnitsOf(m, kOptionServerIdentifier) :
        \/ /\ m.units[k].duidType = kDuidLinkLayerAddressPlusTime
           /\ m.units[k].hwType = kHardwareTypeEthernet
        \/ /\ m.units[k].duidType = kDuidLinkLayerAddress
           /\ m.units[k].hwType = kHardwareTypeEui64
           /\ m.units[k].len = SizeofServerIdentifier - SizeofOption

\* a well-formed Reply under the outstanding transaction that offers one
\* address inside the prefix of binding b
WellFormedOfferFor(m, b) ==
    /\ m.type = kTypeReply
    /\ m.txid = mTransactionId
    /\ ~RejectedByHeaderOrOptions(m)
    /\ ValidServerIdentifier(m)
    /\ UnitsOf(m, kOptionClientIdentifier) # {}
    /\ SingleIaAddress(m)
    /\ InPrefixOf(mIdentityAssociations[b], OfferedAddress(m))

\* the offer of the datagram is written to binding b and to no other
AppliedTo(m, b) ==
    LET option == m.units[CHOOSE k \in UnitsOf(m, kOptionIaAddress) : TRUE]
        before == mIdentityAssociations[b]
        after  == mIdentityAssociations'[b]
    IN  /\ after.mStatus = kIaStatusSolicitReplied
        /\ after.mAddress = option.addr
        /\ after.mPreferredLifetime = option.preferred
        /\ after.mValidLifetime = option.valid
        /\ after.mPreferred = (option.preferred # 0)
        /\ after.mValid = (option.valid # 0)
        /\ after.mPrefixLength = before.mPrefixLength
        /\ after.mPrefixAgentRloc = before.mPrefixAgentRloc
        /\ addCalls' = <<b>>
        /\ \A i \in IaIndex \ {b} : mIdentityAssociations'[i] = mIdentityAssociations[i]

\* C7, as stated: with binding B Soliciting, a well-formed Reply under the
\* outstanding transaction with one IA Address inside B's prefix makes B
\* Replied with the address, lifetimes and flags of the option, calls
\* AddUnicastAddress for B once and changes no other binding
C7_OfferAppliedToSoliciting ==
    [][\A b \in IaIndex :
          (/\ lastOp' = "recv"
           /\ mIdentityAssociations[b].mStatus = kIaStatusSoliciting
           /\ WellFormedOfferFor(lastRx', b))
              => AppliedTo(lastRx', b)]_vars

\* no binding before b in the pool is in use with validLifetime 0 and a
\* prefix the address lies in
FirstToAccept(m, b) ==
    \A i \in 1..(b - 1) :
        ~(/\ mIdentityAssociations[i].mStatus # kIaStatusInvalid
          /\ mIdentityAssociations[i].mValidLifetime = 0
          /\ InPrefixOf(mIdentityAssociations[i], OfferedAddress(m)))

\* C7, amended: the same, provided no binding before B in the pool is in
\* use with validLifetime 0 and a prefix that holds the offered address
C7_OfferAppliedToFirstAccepting ==
    [][\A b \in IaIndex :
          (/\ lastOp' = "recv"
           /\ mIdentityAssociations[b].mStatus = kIaStatusSoliciting
           /\ WellFormedOfferFor(lastRx', b)
           /\ FirstToAccept(lastRx', b))
              => AppliedTo(lastRx', b)]_vars

\* an offer with preferred lifetime 0 and a valid lifetime was applied to a
\* binding beside another binding in use
C7_OfferApplied ==
    /\ lastOp = "recv"
    /\ SingleIaAddress(lastRx)
    /\ \E b \in IaIndex :
          /\ addCalls = <<b>>
          /\ mIdentityAssociations[b].mStatus = kIaStatusSolicitReplied
          /\ mIdentityAssociations[b].mAddress = OfferedAddress(lastRx)
          /\ mIdentityAssociations[b].mPreferredLifetime = 0
          /\ ~mIdentityAssociations[b].mPreferred
          /\ mIdentityAssociations[b].mValidLifetime # 0
          /\ mIdentityAssociations[b].mValid
          /\ \E i \in IaIndex \ {b} : mIdentityAssociations[i].mStatus # kIaStatusInvalid

\* C8: a duplicate of the Reply accepted under the transaction id in force,
\* delivered when no binding is Soliciting, changes no binding and causes no
\* AddUnicastAddress call
C8_DuplicateReplyIgnored ==
    [][(/\ lastOp' = "recv"
        /\ lastAccepted # NoMsg
        /\ lastRx' = lastAccepted
        /\ Soliciting = {})
           => (/\ mIdentityAssociations' = mIdentityAssociations
               /\ addCalls' = <<>>)]_vars

\* ------------------------------------------------------------------------
\* Properties of the reconciler
\* ------------------------------------------------------------------------

ClientState ==
    <<mIdentityAssociations, mIdentityAssociationCurrent, mTransactionId,
      socketBound, timerRunning>>

\* C9, as stated: a reconcile on the configuration of the previous reconcile
\* changes neither the pool, nor the current binding, nor the transaction id,
\* nor the socket, nor the timer
C9_ReconcileIdempotent ==
    [][(/\ lastOp' = "update"
        /\ lastOp # "init"
        /\ netdata' = netdata)
           => UNCHANGED ClientState]_vars

\* C9, amended: a reconcile that follows a reconcile on the same
\* configuration, with no timer firing and no datagram in between, changes
\* none of them
C9_ReconcileTwiceInARow ==
    [][rerun' => UNCHANGED ClientState]_vars

\* a reconcile was run twice in a row while a binding was being solicited
C9_RerunWhileSoliciting ==
    /\ rerun
    /\ socketBound
    /\ timerRunning
    /\ Soliciting # {}

\* C10: a reconcile of NumIa + 1 distinct DHCP prefixes on a pool whose
\* bindings are all Invalid leaves binding i waiting to be solicited for
\* prefix i with the agent of prefix i, nothing of the last prefix written
\* to any binding, and the client started
C10_ExhaustionServesFirstPrefixes ==
    [][(/\ lastOp' = "update"
        /\ netdata' = ExhaustConfig
        /\ \A i \in IaIndex : mIdentityAssociations[i].mStatus = kIaStatusInvalid)
           => (/\ \A i \in IaIndex :
                    LET after == mIdentityAssociations'[i]
                    IN  /\ after.mStatus = kIaStatusSolicit
                        /\ after.mAddress = ExhaustConfig[i].mPrefix
                        /\ after.mPrefixLength = ExhaustConfig[i].mLength
                        /\ after.mPrefixAgentRloc = ExhaustConfig[i].mRloc16
                        /\ after.mValidLifetime = 0
               /\ \A i \in IaIndex :
                    ~MatchNetifAddressWithPrefix(mIdentityAssociations'[i],
                                                 ExhaustConfig[NumIa + 1])
               /\ socketBound'
               /\ timerRunning')]_vars

\* the pool is full of bindings waiting to be solicited, one prefix of the
\* configuration is left without a binding and the client is started
C10_PoolExhausted ==
    /\ lastOp = "update"
    /\ netdata = ExhaustConfig
    /\ Len(netdata) = NumIa + 1
    /\ \A i \in IaIndex : mIdentityAssociations[i].mStatus = kIaStatusSolicit
    /\ ~FoundInNetworkData(mIdentityAssociations[NumIa], <<netdata[NumIa + 1]>>)
    /\ socketBound

\* ------------------------------------------------------------------------
\* Properties of the Solicit messages
\* ------------------------------------------------------------------------

\* C11: in every Solicit that is built, the length declared in the IA_NA is
\* the size of its fixed fields plus k times the size of an IA Address, k the
\* number of IA Address options appended after it
C11_IaNaLengthCoversAddresses ==
    \A k \in 1..Len(solicitCalls) :
        solicitCalls[k].iaNaLength =
            (SizeofIaNa - SizeofOption)
                + Len(solicitCalls[k].iaAddresses) * SizeofIaAddress

\* a Solicit was built for an agent while another binding of the same agent
\* was already Replied
C11_SolicitBesideReplied ==
    /\ solicitCalls # <<>>
    /\ Len(solicitCalls[1].iaAddresses) >= 1
    /\ \E i \in IaIndex :
          /\ mIdentityAssociations[i].mStatus = kIaStatusSolicitReplied
          /\ mIdentityAssociations[i].mPrefixAgentRloc = solicitCalls[1].rloc

\* ------------------------------------------------------------------------
\* Properties of the retry engine
\* ------------------------------------------------------------------------

\* the DHCP prefixes of a configuration
AgentEntries(cfg) == {k \in 1..Len(cfg) : cfg[k].mDhcp}

\* binding i alone is in use: it waits to be solicited for the one DHCP
\* prefix of the configuration and is current; the client is started
SoleBindingPending(i) ==
    /\ Cardinality(AgentEntries(netdata)) = 1
    /\ LET entry == netdata[CHOOSE k \in AgentEntries(netdata) : TRUE]
           ia    == mIdentityAssociations[i]
       IN  /\ ia.mStatus = kIaStatusSolicit
           /\ ia.mAddress = entry.mPrefix
           /\ ia.mPrefixLength = entry.mLength
           /\ ia.mPrefixAgentRloc = entry.mRloc16
           /\ ia.mValidLifetime = 0
    /\ \A j \in IaIndex \ {i} : mIdentityAssociations[j].mStatus = kIaStatusInvalid
    /\ socketBound
    /\ timerRunning
    /\ mIdentityAssociationCurrent = i

\* C12: from the initial state, a reconcile on a configuration with one DHCP
\* prefix leaves one binding waiting to be solicited for it, with
\* validLifetime 0, the socket open, the timer running and that binding
\* current; a timer firing in that state makes the binding Soliciting and
\* sends one Solicit
C12_FirstPrefixIsSolicited ==
    [][/\ (/\ lastOp = "init"
           /\ lastOp' = "update"
           /\ Cardinality(AgentEntries(netdata')) = 1)
              => \E i \in IaIndex : SoleBindingPending(i)'
       /\ \A i \in IaIndex :
             (SoleBindingPending(i) /\ lastOp' = "timer")
                => (/\ mIdentityAssociations' =
                          [mIdentityAssociations EXCEPT ![i].mStatus = kIaStatusSoliciting]
                    /\ mIdentityAssociationCurrent' = i
                    /\ Len(solicitCalls') = 1
                    /\ solicitCalls'[1].rloc = mIdentityAssociations[i].mPrefixAgentRloc
                    /\ socketBound'
                    /\ timerRunning')]_vars

\* the first Solicit for the one DHCP prefix of the configuration went out
C12_FirstSolicitSent ==
    /\ lastOp = "timer"
    /\ Cardinality(AgentEntries(netdata)) = 1
    /\ Len(solicitCalls) = 1
    /\ \E i \in IaIndex :
          /\ mIdentityAssociationCurrent = i
          /\ mIdentityAssociations[i].mStatus = kIaStatusSoliciting
          /\ \A j \in IaIndex \ {i} : mIdentityAssociations[j] = ZeroIa

\* the configurations and the datagrams of the runs that exercise progress
LiveConfigs == { <<>>, <<EntrySlaac, EntryA>>, <<EntryA, EntryB>> }

LiveDatagrams ==
    { Datagram(kTypeReply, t, u) :
        t \in TxIds,
        u \in { PlainUnits(OfferA, 30, 60), PlainUnits(OfferB, 30, 60) } }

NextLive == NextOver(LiveConfigs, LiveDatagrams)

\* the client with a trickle timer that fires as long as it runs
SpecLive ==
    /\ Init
    /\ [][NextLive]_vars
    /\ WF_vars(TrickleTimerFired)

\* a Solicit sent on the open socket for the binding being solicited waits
\* for its Reply
SolicitOutstanding ==
    /\ socketBound
    /\ mIdentityAssociationCurrent # 0
    /\ mIdentityAssociations[mIdentityAssociationCurrent].mStatus = kIaStatusSoliciting

\* no Solicit waits for its Reply forever
SolicitsAreAnswered == []<>(~SolicitOutstanding)

\* C13: with the timer firing and every Solicit answered, a binding that
\* waits to be solicited does not wait forever while its prefix stays in the
\* configuration: it moves on to Soliciting and Replied
C13_PendingIsEventuallySolicited ==
    SolicitsAreAnswered =>
        \A i \in IaIndex :
            (mIdentityAssociations[i].mStatus = kIaStatusSolicit)
                ~> (\/ mIdentityAssociations[i].mStatus \in
                          {kIaStatusSoliciting, kIaStatusSolicitReplied}
                    \/ ~FoundInNetworkData(mIdentityAssociations[i], netdata))

\* the trickle handler is about to run on a current binding that is
\* Replied: the timer fires on it, or a Reply that ProcessReply reads to its
\* end has just made it Replied
HandlerRunsOnReplied ==
    /\ mIdentityAssociationCurrent # 0
    /\ \/ /\ lastOp' = "timer"
          /\ mIdentityAssociations[mIdentityAssociationCurrent].mStatus
                = kIaStatusSolicitReplied
       \/ /\ lastOp' = "recv"
          /\ HandleUdpReceiveReply(lastRx').done
          /\ HandleUdpReceiveReply(lastRx').pool[mIdentityAssociationCurrent].mStatus
                = kIaStatusSolicitReplied

PendingAfter == {i \in IaIndex : mIdentityAssociations'[i].mStatus = kIaStatusSolicit}

\* C14: the trickle handler run on a current binding that is Replied makes a
\* binding that waits to be solicited current, under a new transaction id
\* and with the timer started; with no such binding it clears the current
\* reference, stops the timer and closes the socket.  The current reference
\* is never left on the Replied binding
C14_RepliedHandsOver ==
    [][HandlerRunsOnReplied =>
          /\ mIdentityAssociationCurrent' # mIdentityAssociationCurrent
          /\ IF PendingAfter # {}
             THEN /\ mIdentityAssociationCurrent' \in PendingAfter
                  /\ txGenerated'
                  /\ timerRunning'
             ELSE /\ mIdentityAssociationCurrent' = 0
                  /\ ~timerRunning'
                  /\ ~socketBound']_vars

\* a Reply made the current binding Replied and the handler went on to the
\* next binding
C14_HandedOverToNext ==
    /\ lastOp = "recv"
    /\ addCalls # <<>>
    /\ txGenerated
    /\ timerRunning
    /\ mIdentityAssociationCurrent # 0
    /\ mIdentityAssociationCurrent \notin {addCalls[k] : k \in 1..Len(addCalls)}
    /\ mIdentityAssociations[mIdentityAssociationCurrent].mStatus = kIaStatusSolicit

\* a Reply made the last binding Replied and the handler shut the client down
C14_ShutDownAfterLast ==
    /\ lastOp = "recv"
    /\ addCalls # <<>>
    /\ mIdentityAssociationCurrent = 0
    /\ ~timerRunning
    /\ ~socketBound

\* a binding enters Soliciting in this step
EntersSoliciting ==
    \E i \in IaIndex :
        /\ mIdentityAssociations[i].mStatus # kIaStatusSoliciting
        /\ mIdentityAssociations'[i].mStatus = kIaStatusSoliciting

\* C15: whenever a binding enters Soliciting, the transaction id was
\* generated anew after the previous entry of a binding into Soliciting
C15_FreshTransactionPerSolicit ==
    [][EntersSoliciting => freshTransaction]_vars

\* C16: whenever the engine selects a current binding it is the first
\* binding of the pool that waits to be solicited, and nothing but a
\* selection moves the current reference to a binding; while the current
\* binding is Soliciting nothing is selected: current reference, transaction
\* id and timer stay as they are
C16_SelectsFirstPending ==
    [][/\ txGenerated' =>
             /\ PendingAfter # {}
             /\ mIdentityAssociationCurrent' = Min(PendingAfter)
             /\ timerRunning'
       /\ (/\ mIdentityAssociationCurrent' # mIdentityAssociationCurrent
           /\ mIdentityAssociationCurrent' # 0) => txGenerated'
       /\ (/\ mIdentityAssociationCurrent # 0
           /\ mIdentityAssociations[mIdentityAssociationCurrent].mStatus
                 = kIaStatusSoliciting
           /\ mIdentityAssociations'[mIdentityAssociationCurrent].mStatus
                 = kIaStatusSoliciting)
              => (/\ ~txGenerated'
                  /\ UNCHANGED <<mIdentityAssociationCurrent, mTransactionId,
                                 timerRunning>>)]_vars

\* the engine selected the second binding, the first one being served
C16_SelectedPastReplied ==
    /\ txGenerated
    /\ mIdentityAssociationCurrent = 2
    /\ mIdentityAssociations[1].mStatus = kIaStatusSolicitReplied
    /\ mIdentityAssociations[2].mStatus = kIaStatusSolicit

\* a reconcile added a binding while another one was being solicited
C16_PendingAddedWhileSoliciting ==
    /\ lastOp = "update"
    /\ ~txGenerated
    /\ Soliciting # {}
    /\ removeCalls = {}
    /\ \E i \in IaIndex :
          /\ mIdentityAssociations[i].mStatus = kIaStatusSolicit
          /\ i < mIdentityAssociationCurrent

\* ------------------------------------------------------------------------
\* Properties of the scan of the IA_NA
\* ------------------------------------------------------------------------

\* the IA Address records that lie inside the window of nested options the
\* first IA_NA of a datagram declares
InsideIaNaWindow(m) ==
    IF UnitsOf(m, kOptionIaNa) = {} THEN {}
    ELSE LET iana  == m.units[Min(UnitsOf(m, kOptionIaNa))]
             start == iana.offset + SizeofIaNa
             end   == start + (iana.len - (SizeofIaNa - SizeofOption))
         IN  {k \in UnitsOf(m, kOptionIaAddress) :
                 /\ m.units[k].offset >= start
                 /\ m.units[k].offset + SizeofIaAddress <= end}

\* C17: every address a Reply gives to a binding is the address of an IA
\* Address option that lies inside the window of nested options declared by
\* the IA_NA; an IA Address that begins at or beyond the end of the window is
\* not applied
C17_OnlyWindowedAddressesApplied ==
    [][lastOp' = "recv" =>
          \A n \in 1..Len(addCalls') :
              \E k \in InsideIaNaWindow(lastRx') :
                  mIdentityAssociations'[addCalls'[n]].mAddress = lastRx'.units[k].addr]_vars

\* ------------------------------------------------------------------------
\* Properties of the current binding
\* ------------------------------------------------------------------------

\* C18: a timer firing while the current binding is Soliciting sends one
\* Solicit to the agent of the current binding and leaves every binding, the
\* current reference, the transaction id, the start time and the socket as
\* they were
C18_RetransmitChangesNothing ==
    [][(/\ lastOp' = "timer"
        /\ mIdentityAssociationCurrent # 0
        /\ mIdentityAssociations[mIdentityAssociationCurrent].mStatus
              = kIaStatusSoliciting)
           => (/\ Len(solicitCalls') = 1
               /\ solicitCalls'[1].rloc =
                     mIdentityAssociations[mIdentityAssociationCurrent].mPrefixAgentRloc
               /\ ~startTimeSet'
               /\ ~txGenerated'
               /\ UNCHANGED <<mIdentityAssociations, mIdentityAssociationCurrent,
                              mTransactionId, socketBound>>)]_vars

\* the Solicit for the current binding was sent again
C18_SolicitRetransmitted ==
    /\ lastOp = "timer"
    /\ Len(solicitCalls) = 1
    /\ ~startTimeSet
    /\ mIdentityAssociationCurrent # 0
    /\ mIdentityAssociations[mIdentityAssociationCurrent].mStatus = kIaStatusSoliciting

\* C19: between events the current reference, when set, is on a binding
\* that is not Invalid
C19_CurrentIsInUse ==
    mIdentityAssociationCurrent # 0 =>
        mIdentityAssociations[mIdentityAssociationCurrent].mStatus # kIaStatusInvalid

\* every prefix of the address space of the model
AllPrefixes ==
    [mPrefix : {<<a, b, c>> : a \in 0..1, b \in 0..1, c \in 0..1},
     mLength : 0..Len(ZeroAddress)]

\* the bindings in use that match a prefix under the rule of the reconciler
Serving(prefix) ==
    {i \in IaIndex : /\ mIdentityAssociations[i].mStatus # kIaStatusInvalid
                     /\ MatchNetifAddressWithPrefix(mIdentityAssociations[i], prefix)}

\* C20: no two bindings in use match the same prefix under the rule of the
\* reconciler, equal prefix length and that many leading bits in common
C20_OneBindingPerPrefix ==
    \A prefix \in AllPrefixes : Cardinality(Serving(prefix)) <= 1

\* a prefix two agents advertise is served by one binding, whose address a
\* Reply has replaced by an address inside the prefix
C20_SharedPrefixServedOnce ==
    /\ lastOp = "update"
    /\ netdata = <<EntryA, EntryA2>>
    /\ \E i \in IaIndex :
          /\ mIdentityAssociations[i].mStatus = kIaStatusSolicitReplied
          /\ mIdentityAssociations[i].mAddress # EntryA.mPrefix
          /\ mIdentityAssociations[i].mPrefixAgentRloc = EntryA2.mRloc16
          /\ Serving([mPrefix |-> EntryA.mPrefix, mLength |-> EntryA.mLength]) = {i}
          /\ \A j \in IaIndex \ {i} : mIdentityAssociations[j].mStatus = kIaStatusInvalid

====
